---- MODULE Spec2Model ----
(***************************************************************************)
(* A model of the vanilla-arcade simulation engine (AsteroidsGame in       *)
(* src/src/asteroids-game.ts).                                             *)
(*                                                                         *)
(* Numbers.  The program computes with IEEE doubles.  The model keeps      *)
(* every length, position, velocity and size as an integer number of       *)
(* hundredths of a pixel (Unit = 100), so SHIP_THRUST = 0.15 and           *)
(* SHIP_FRICTION = 0.99 are the integers 15 and 99; products that leave    *)
(* the grid are rounded to the nearest hundredth.  Angles: the ship's      *)
(* rotation is counted in steps of SHIP_ROTATION_SPEED from its initial    *)
(* -PI/2, and Cos100 / Sin100 tabulate cos and sin (times 100) of those    *)
(* angles; an asteroid's heading is drawn among the quarter turns, whose   *)
(* cos and sin are exact.                                                  *)
(*                                                                         *)
(* Environment.  Math.random() and the player are the environment.  The    *)
(* variable env, fixed by Init, holds the outcomes Math.random() may have  *)
(* in a run and the player's behaviour: the player presses the fire        *)
(* button env.autofire times before each of the first env.warmup frames    *)
(* (and does nothing else), and is then free to produce any input for      *)
(* ActiveFrames more frames.                                               *)
(***************************************************************************)
EXTENDS Integers, Sequences, FiniteSets, TLC

VARIABLES
    width, height,      \* AsteroidsGame.width, .height (pixels)
    ship,               \* AsteroidsGame.ship
    asteroids,          \* AsteroidsGame.asteroids
    bullets,            \* AsteroidsGame.bullets
    score,              \* AsteroidsGame.score
    keys,               \* AsteroidsGame.keys
    gameOver,           \* AsteroidsGame.gameOver
    invincibleTime,     \* AsteroidsGame.invincibleTime
    stars,              \* AsteroidsGame.stars (the base brightness of each)
    renderer,           \* the fields of the WebGPURenderer
    gpu,                \* what the renderer has asked of the GPU so far
    app,                \* the VanillaArcade object and what it has shown
    out,                \* what the last getVertices() call returned
    env,                \* the environment of the run (see above)
    frames,             \* update() calls so far
    shots,              \* fire events since the last update() call
    sinceReset,         \* update() calls executed in Playing since the last reset
    volley,             \* what the Space key has done since it was last pressed
    last                \* what the last update() call saw and did

game == <<width, height, ship, asteroids, bullets, score, keys, gameOver, invincibleTime>>
vars == <<width, height, ship, asteroids, bullets, score, keys, gameOver,
          invincibleTime, stars, renderer, gpu, app, out, env, frames, shots,
          sinceReset, volley, last>>

(***************************************************************************)
(* Bounds of the model.                                                    *)
(***************************************************************************)
\* Frames in which the player is free, after the scripted warm-up.
ActiveFrames == 2
\* Fire events the player produces between two update() calls.
MaxShots == 2
\* render() calls on one renderer.
MaxRenders == 3
\* destroy() calls on one renderer.
MaxDestroys == 2
MaxResizes == 1

(***************************************************************************)
(* Program constants (asteroids-game.ts, lines 41-49 and 61).              *)
(***************************************************************************)
Unit == 100
SHIP_SIZE == 20
SHIP_THRUST == 15
SHIP_FRICTION == 99
SHIP_ROTATION_SPEED == 1
BULLET_SPEED == 8
BULLET_LIFE == 60
MAX_ASTEROIDS == 15
ASTEROID_SPEED == 150
STAR_COUNT == 100
INVINCIBLE_TIME == 120
INITIAL_ASTEROIDS == 5
MIN_ASTEROIDS == 3
SPLIT_SIZE == 25

(***************************************************************************)
(* Arithmetic helpers.                                                     *)
(***************************************************************************)
\* n / d rounded to the nearest integer, halves away from zero.
Round(n, d) ==
    IF n >= 0 THEN (2 * n + d) \div (2 * d) ELSE -((2 * (-n) + d) \div (2 * d))

Vec(x, y) == [x |-> x, y |-> y]

\* 100 * cos(-PI/2 + 0.08 * k) and 100 * sin(-PI/2 + 0.08 * k), rounded.
CosTable == <<0, 8, 16, 24, 31, 39, 46>>
SinTable == <<-100, -100, -99, -97, -95, -92, -89>>
Cos100(k) == IF k >= 0 THEN CosTable[k + 1] ELSE -CosTable[-k + 1]
Sin100(k) == IF k >= 0 THEN SinTable[k + 1] ELSE SinTable[-k + 1]

\* cos and sin of q quarter turns (Math.random() * Math.PI * 2 with the draw
\* random = q / 4).
QCos(q) == CASE q = 0 -> 1 [] q = 1 -> 0 [] q = 2 -> -1 [] OTHER -> 0
QSin(q) == CASE q = 0 -> 0 [] q = 1 -> 1 [] q = 2 -> 0 [] OTHER -> -1

RemoveAt(s, i) == SubSeq(s, 1, i - 1) \o SubSeq(s, i + 1, Len(s))

(***************************************************************************)
(* wrapPosition: the four tests of lines 323-326, in that order.           *)
(***************************************************************************)
WrapCoord(c, limit) ==
    LET c1 == IF c < 0 THEN limit ELSE c
    IN  IF c1 > limit THEN 0 ELSE c1

wrapPosition(pos, w, h) == Vec(WrapCoord(pos.x, w * Unit), WrapCoord(pos.y, h * Unit))

(***************************************************************************)
(* createShip.  The outline is a fixed list of 4 points; the model keeps   *)
(* its length only.                                                        *)
(***************************************************************************)
ShipVertices == 4

createShip(w, h) ==
    [position |-> Vec((w * Unit) \div 2, (h * Unit) \div 2),
     velocity |-> Vec(0, 0),
     rotation |-> 0,
     thrust   |-> FALSE]

(***************************************************************************)
(* spawnAsteroid(size, position?).  d is the record of Math.random()       *)
(* draws the call consumes: d.edge = floor(random * 4), d.along =          *)
(* 100 * random for the place on the edge, d.angle the heading in quarter  *)
(* turns, d.nverts = 8 + floor(random * 5).  position = NoPosition stands  *)
(* for the omitted argument.  The rotation and rotationSpeed fields and    *)
(* the outline's coordinates only feed the drawing and are left out.       *)
(***************************************************************************)
NoPosition == [none |-> TRUE]

EdgePosition(d, w, h) ==
    CASE d.edge = 0 -> Vec(0, d.along * h)
      [] d.edge = 1 -> Vec(w * Unit, d.along * h)
      [] d.edge = 2 -> Vec(d.along * w, 0)
      [] OTHER      -> Vec(d.along * w, h * Unit)

\* speed = (ASTEROID_SPEED * (100 - size)) / 50
AsteroidSpeed(size) == (ASTEROID_SPEED * (100 * Unit - size)) \div (50 * Unit)

\* spawnAsteroid without the test of lines 107-108.
spawnUncapped(list, size, position, d, w, h) ==
    LET pos   == IF position = NoPosition THEN EdgePosition(d, w, h) ELSE position
        speed == AsteroidSpeed(size)
    IN  Append(list,
               [position |-> pos,
                velocity |-> Vec(QCos(d.angle) * speed, QSin(d.angle) * speed),
                size     |-> size,
                nverts   |-> d.nverts])

\* spawnAsteroid with the test of lines 107-108 one asteroid early.
spawnEarlyCap(list, size, position, d, w, h) ==
    IF Len(list) >= MAX_ASTEROIDS - 1 THEN list
    ELSE spawnUncapped(list, size, position, d, w, h)

spawnAsteroid(list, size, position, d, w, h) ==
    IF Len(list) >= MAX_ASTEROIDS THEN list
    ELSE LET pos   == IF position = NoPosition THEN EdgePosition(d, w, h) ELSE position
             speed == AsteroidSpeed(size)
         IN  Append(list,
                    [position |-> pos,
                     velocity |-> Vec(QCos(d.angle) * speed, QSin(d.angle) * speed),
                     size     |-> size,
                     nverts   |-> d.nverts])

\* The draws Math.random() may produce in this run.
EdgeDraws(e) ==
    [edge : e.edges, along : e.along, angle : e.angles, nverts : e.nverts, size : e.initSize]
MaintDraws(e) ==
    [edge : e.edges, along : e.along, angle : e.angles, nverts : e.nverts, size : e.maintSize]
SplitDraws(e) ==
    [edge : {0}, along : {0}, angle : e.angles, nverts : e.nverts, size : {0}]

\* initAsteroids(count): spawnAsteroid(60 + Math.random() * 20), count times.
\* tape[i].size is 100 * random of the i-th call.
RECURSIVE initAsteroids(_, _, _, _, _)
initAsteroids(list, count, tape, w, h) ==
    IF count = 0 THEN list
    ELSE initAsteroids(
             spawnAsteroid(list, 60 * Unit + tape[1].size * 20, NoPosition, tape[1], w, h),
             count - 1, Tail(tape), w, h)

(***************************************************************************)
(* restart (lines 211-219) and the constructor (lines 63-70) build the     *)
(* same game fields from the surface size and five draws.                  *)
(***************************************************************************)
NoKeys == [left |-> FALSE, right |-> FALSE, up |-> FALSE, fire |-> FALSE]

restart(tape, w, h) ==
    [ship           |-> createShip(w, h),
     asteroids      |-> initAsteroids(<<>>, INITIAL_ASTEROIDS, tape, w, h),
     bullets        |-> <<>>,
     score          |-> 0,
     gameOver       |-> FALSE,
     invincibleTime |-> INVINCIBLE_TIME]

(***************************************************************************)
(* fireBullet (lines 192-209), Playing branch: the new projectile.         *)
(***************************************************************************)
newBullet(s) ==
    [position |-> Vec(s.position.x + Cos100(s.rotation) * SHIP_SIZE,
                      s.position.y + Sin100(s.rotation) * SHIP_SIZE),
     velocity |-> Vec(Cos100(s.rotation) * BULLET_SPEED + Round(s.velocity.x, 2),
                      Sin100(s.rotation) * BULLET_SPEED + Round(s.velocity.y, 2)),
     life     |-> BULLET_LIFE]

(***************************************************************************)
(* update(), lines 228-252: rotation, thrust, friction, integration, wrap. *)
(***************************************************************************)
StepShip(s, k, w, h) ==
    LET r1  == IF k.left THEN s.rotation - SHIP_ROTATION_SPEED ELSE s.rotation
        r2  == IF k.right THEN r1 + SHIP_ROTATION_SPEED ELSE r1
        vx1 == IF k.up THEN s.velocity.x + Round(Cos100(r2) * SHIP_THRUST, 100)
                       ELSE s.velocity.x
        vy1 == IF k.up THEN s.velocity.y + Round(Sin100(r2) * SHIP_THRUST, 100)
                       ELSE s.velocity.y
        vx2 == Round(vx1 * SHIP_FRICTION, 100)
        vy2 == Round(vy1 * SHIP_FRICTION, 100)
    IN  [position |-> wrapPosition(Vec(s.position.x + vx2, s.position.y + vy2), w, h),
         velocity |-> Vec(vx2, vy2),
         rotation |-> r2,
         thrust   |-> k.up]

(***************************************************************************)
(* update(), lines 254-261: move, wrap and age every projectile, keep the  *)
(* ones with life left.                                                    *)
(***************************************************************************)
MoveBullet(b, w, h) ==
    [position |-> wrapPosition(Vec(b.position.x + b.velocity.x,
                                   b.position.y + b.velocity.y), w, h),
     velocity |-> b.velocity,
     life     |-> b.life - 1]

\* The filter keeping a projectile whose lifetime has reached 0.
AliveAtZero(b) == b.life >= 0

\* Line 260: return bullet.life > 0
Alive(b) == b.life > 0

RECURSIVE StepBullets(_, _, _)
StepBullets(bs, w, h) ==
    IF bs = <<>> THEN <<>>
    ELSE LET b == MoveBullet(Head(bs), w, h)
         IN  (IF Alive(b) THEN <<b>> ELSE <<>>) \o StepBullets(Tail(bs), w, h)

(***************************************************************************)
(* update(), lines 263-269: move and wrap every asteroid.                  *)
(***************************************************************************)
MoveAsteroid(a, w, h) ==
    [a EXCEPT !.position = wrapPosition(Vec(a.position.x + a.velocity.x,
                                            a.position.y + a.velocity.y), w, h)]

StepAsteroids(list, w, h) == [i \in 1..Len(list) |-> MoveAsteroid(list[i], w, h)]

(***************************************************************************)
(* update(), lines 271-298: the projectile x asteroid pass.                *)
(***************************************************************************)
DistSquared(p, q) == (p.x - q.x) * (p.x - q.x) + (p.y - q.y) * (p.y - q.y)

BulletHits(b, a) == DistSquared(b.position, a.position) < a.size * a.size

\* The inner loop runs j from the end of the list down and stops at the first
\* asteroid hit: the hit with the greatest index, 0 when there is none.
HitIndex(b, list) ==
    LET hit == {j \in 1..Len(list) : BulletHits(b, list[j])}
    IN  IF hit = {} THEN 0 ELSE CHOOSE j \in hit : \A m \in hit : m <= j

\* A hit that costs points instead of earning them.
HitPenalty(size) == -((100 * Unit * 10) \div size)

\* Math.floor(100 / size * 10)
HitScore(size) == (100 * Unit * 10) \div size

\* A split without the size test of line 289.
SplitsAlways(size) == TRUE

Splits(size) == size > SPLIT_SIZE * Unit

\* A split into quarters.
QuarterSize(size) == size \div 4

\* Line 290: removedAsteroid.size * 0.5
HalfSize(size) == size \div 2

\* Lines 286-293: the asteroid list after the hit on list[j].  tape[1] and
\* tape[2] are the draws of the two spawnAsteroid calls.
SplitOrRemove(list, j, tape, w, h) ==
    LET removed == list[j]
        rest    == RemoveAt(list, j)
        newSize == HalfSize(removed.size)
    IN  IF Splits(removed.size)
        THEN spawnAsteroid(spawnAsteroid(rest, newSize, removed.position, tape[1], w, h),
                           newSize, removed.position, tape[2], w, h)
        ELSE rest

\* A projectile that a hit leaves in the list.
PiercingBullets(list, i) == list

\* Line 283: this.bullets.splice(i, 1)
SpentBullets(list, i) == RemoveAt(list, i)

\* The outer loop, i from the last projectile down to the first.  st carries
\* the projectiles, the asteroids, the score, the draws not yet consumed and
\* the record of the hits: for each, the population at the moment of the hit,
\* the removed asteroid (its index in the list, size and position), the
\* asteroids the hit added, the projectile's position and the asteroid list
\* the inner loop went through.
RECURSIVE BulletPass(_, _, _, _)
BulletPass(i, st, w, h) ==
    IF i = 0 THEN st
    ELSE LET j == HitIndex(st.bullets[i], st.asteroids)
         IN  IF j = 0 THEN BulletPass(i - 1, st, w, h)
             ELSE LET removed == st.asteroids[j]
                      after   == SplitOrRemove(st.asteroids, j, st.tape, w, h)
                  IN  BulletPass(i - 1,
                          [bullets   |-> SpentBullets(st.bullets, i),
                           asteroids |-> after,
                           score     |-> st.score + HitScore(removed.size),
                           tape      |-> IF Splits(removed.size)
                                         THEN SubSeq(st.tape, 3, Len(st.tape))
                                         ELSE st.tape,
                           log       |-> Append(st.log,
                                            [count    |-> Len(st.asteroids),
                                             index    |-> j,
                                             size     |-> removed.size,
                                             position |-> removed.position,
                                             added    |-> SubSeq(after, Len(st.asteroids),
                                                                 Len(after)),
                                             bullet   |-> st.bullets[i].position,
                                             tested   |-> st.asteroids])],
                          w, h)

(***************************************************************************)
(* update(), lines 300-314: the ship x asteroid pass.                      *)
(***************************************************************************)
\* The ship pass with the asteroid's size alone as collision radius.
ShipHitsCore(s, a) == DistSquared(s.position, a.position) < a.size * a.size

ShipHits(s, a) ==
    LET collisionRadius == a.size + (SHIP_SIZE * Unit) \div 2
    IN  DistSquared(s.position, a.position) < collisionRadius * collisionRadius

ShipStruck(s, list) == \E j \in 1..Len(list) : ShipHits(s, list[j])

\* The ship pass without the invincibility test of line 301.
AlwaysChecked(inv) == TRUE

CollisionChecked(inv) == inv <= 0

(***************************************************************************)
(* update(), lines 316-319: one spawn at an edge when fewer than three     *)
(* asteroids are left.  d.size is 100 * random.                            *)
(***************************************************************************)
\* update() without the maintenance spawn.
NeverSpawns(list) == FALSE

NeedsSpawn(list) == Len(list) < MIN_ASTEROIDS

\* An update() that returns once the ship is struck.
ReturnsWhenStruck(struck) == ~struck

\* The break of line 311 leaves the for loop only: lines 316-319 follow
\* whether or not the ship was struck.
ReachesMaintenance(struck) == TRUE

Maintain(list, d, w, h) ==
    IF NeedsSpawn(list)
    THEN spawnAsteroid(list, 50 * Unit + d.size * 30, NoPosition, d, w, h)
    ELSE list

(***************************************************************************)
(* getVertices(time), lines 329-415, and drawText / getCharacterSegments,  *)
(* lines 417-475.  The model keeps how many vertices each part pushes.     *)
(***************************************************************************)
\* The number of segments getCharacterSegments returns for a character.
SegmentCount(char) ==
    CASE char \in {"S", "R", "G", "D", "0", "2", "5", "6", "8"} -> 5
      [] char \in {"O", "E", "M", "P", "3"} -> 4
      [] char \in {"C", "A", "I", "F", "N", "1", "4"} -> 3
      [] char \in {"V", "T", ":", "7"} -> 2
      [] char = "9" -> 6
      [] OTHER -> 0

DigitChar(d) == <<"0", "1", "2", "3", "4", "5", "6", "7", "8", "9">>[d + 1]

\* The characters of `${n}` for an integer n.
RECURSIVE NumberText(_)
NumberText(n) ==
    IF n < 0 THEN <<"-">> \o NumberText(-n)
    ELSE IF n < 10 THEN <<DigitChar(n)>>
    ELSE Append(NumberText(n \div 10), DigitChar(n % 10))

\* drawText: two vertices for every segment of every character.
RECURSIVE drawText(_)
drawText(text) ==
    IF text = <<>> THEN 0 ELSE 2 * SegmentCount(Head(text)) + drawText(Tail(text))

ScoreLabel == <<"S", "C", "O", "R", "E", ":", " ">>
GameOverText == <<"G", "A", "M", "E", " ", "O", "V", "E", "R">>
RestartText ==
    <<"P", "R", "E", "S", "S", " ", "F", "I", "R", "E", " ", "T", "O", " ",
      "R", "E", "S", "T", "A", "R", "T">>

RECURSIVE OutlineVertices(_)
OutlineVertices(list) ==
    IF list = <<>> THEN 0 ELSE 2 * Head(list).nverts + OutlineVertices(Tail(list))

\* The flame with its tip left out.
FlameTipOnly(thrust) == IF thrust THEN 1 ELSE 0

\* Lines 363-377: the flame is one segment.
FlameVertices(thrust) == IF thrust THEN 2 ELSE 0

\* Colour channels are kept in units of 1 / Full.
Full == 10 * Unit * Unit

SetMax(S) == CHOOSE m \in S : \A n \in S : n <= m
SetMin(S) == CHOOSE m \in S : \A n \in S : m <= n

\* Lines 334-339: r = g = brightness * twinkle, b = that * 1.2, a = 1, for a
\* star of base brightness b100 / 100 and a twinkle value of twinkle / 100.
StarChannels(b100, twinkle) == {10 * b100 * twinkle, 12 * b100 * twinkle, Full}

\* The channel values of the vertices getVertices pushes.
Channels(blink, twinkle) ==
    UNION ({StarChannels(stars[i], twinkle) : i \in 1..Len(stars)}
           \cup {IF gameOver THEN {}
                 ELSE IF blink THEN {Full \div 2, Full} ELSE {0, Full \div 2, Full},
                 IF ~gameOver /\ ship.thrust THEN {0, Full \div 2, (8 * Full) \div 10, Full}
                 ELSE {},
                 IF asteroids = <<>> THEN {} ELSE {(7 * Full) \div 10, Full},
                 IF bullets = <<>> THEN {} ELSE {0, Full},
                 {0, Full}})

\* time10 is Math.floor(time * 10); twinkle is 100 * (0.5 + 0.5 * Math.sin(...))
\* of line 334, in this model the same for every star of a call.
getVertices(time10, twinkle) ==
    LET blink == invincibleTime > 0 /\ time10 % 2 = 0
    IN  [len  |-> 2 * Len(stars)
                  + (IF gameOver THEN 0
                     ELSE 2 * ShipVertices + FlameVertices(ship.thrust))
                  + OutlineVertices(asteroids)
                  + 4 * Len(bullets)
                  + drawText(ScoreLabel \o NumberText(score))
                  + (IF gameOver THEN drawText(GameOverText) + drawText(RestartText)
                     ELSE 0),
         blink |-> blink,
         hi    |-> SetMax(Channels(blink, twinkle)),
         lo    |-> SetMin(Channels(blink, twinkle))]

Void == [len |-> -1, blink |-> FALSE]

(***************************************************************************)
(* The environment of a run.                                               *)
(***************************************************************************)
Horizon == env.warmup + ActiveFrames
Scripted == frames < env.warmup
PlayerFree == frames >= env.warmup /\ frames < Horizon

Min(a, b) == IF a <= b THEN a ELSE b

Released == [count |-> 0, repeats |-> 0, updates |-> 0, playing |-> FALSE]

NoUpdate ==
    [count |-> 0, shots |-> 0, score |-> 0, over |-> FALSE, inv |-> INVINCIBLE_TIME,
     log |-> <<>>, ship |-> Vec(0, 0), moved |-> <<>>, rocks |-> <<>>, left |-> 0]

(***************************************************************************)
(* initStars, lines 140-150: STAR_COUNT stars.  The model keeps each       *)
(* star's base brightness, 100 * (0.3 + Math.random() * 0.7); tape is the  *)
(* list of brightness draws, taken in turn.                                *)
(***************************************************************************)
initStars(tape) == [i \in 1..STAR_COUNT |-> tape[((i - 1) % Len(tape)) + 1]]

(***************************************************************************)
(* The WebGPURenderer (webgpu-renderer.ts).  Each field is "null", "live"  *)
(* or "destroyed".                                                         *)
(***************************************************************************)
NullRenderer ==
    [device |-> "null", context |-> "null", pipeline |-> "null",
     uniformBuffer |-> "null", uniformBindGroup |-> "null"]

\* The fields after initialize() has returned true (lines 70-143).
ReadyRenderer ==
    [device |-> "live", context |-> "live", pipeline |-> "live",
     uniformBuffer |-> "live", uniformBindGroup |-> "live"]

\* buffers: the vertex buffers the call created; freed: those it destroyed.
NoCall ==
    [length |-> 0, ready |-> FALSE, uniformWrites |-> 0, buffers |-> 0,
     clears |-> 0, draws |-> 0, submits |-> 0, freed |-> 0]

\* inits, calls, destroys: the initialize(), render() and destroy() calls so
\* far; rejected: initialize()'s promise was rejected; destroyThrew: a
\* destroy() call threw; call: what the last render() call did; made: the
\* vertex buffers created so far (up to MaxRenders); vertexBuffers: those of
\* them not yet destroyed.
QuietGpu ==
    [inits |-> 0, calls |-> 0, destroys |-> 0, rejected |-> FALSE,
     destroyThrew |-> FALSE, call |-> NoCall, made |-> 0, vertexBuffers |-> 0]

(***************************************************************************)
(* The VanillaArcade object (index.ts).                                    *)
(***************************************************************************)
NoGame == [over |-> FALSE, score |-> 0, shots |-> 0]

\* Before initialize().  attempts: the initialize() calls that have ended;
\* pending: one is suspended; destroyed: destroy() has been called.
NewApp ==
    [attempts |-> 0, game |-> FALSE, fallback |-> FALSE, logged |-> FALSE,
     loop |-> FALSE, listening |-> FALSE, resizes |-> 0, before |-> NoGame,
     pending |-> FALSE, destroyed |-> FALSE]

\* After an initialize() that reached line 75.
RunningApp ==
    [NewApp EXCEPT !.attempts = 1, !.game = TRUE, !.loop = TRUE, !.listening = TRUE]

(***************************************************************************)
(* The constructor, lines 63-70.  e.booted: the run starts after a         *)
(* VanillaArcade.initialize() that succeeded, with the renderer ready and  *)
(* the frame loop running.                                                 *)
(***************************************************************************)
InitWith(e) ==
    /\ env = e
    /\ stars = initStars(e.brightness)
    /\ renderer = (IF e.booted THEN ReadyRenderer ELSE NullRenderer)
    /\ gpu = [QuietGpu EXCEPT !.inits = IF e.booted THEN 1 ELSE 0]
    /\ app = (IF e.booted THEN RunningApp ELSE NewApp)
    /\ width = e.width
    /\ height = e.height
    /\ \E tape \in e.tapes :
         LET g == restart(tape, e.width, e.height)
         IN  /\ ship = g.ship
             /\ asteroids = g.asteroids
             /\ bullets = g.bullets
             /\ score = g.score
             /\ gameOver = g.gameOver
             /\ invincibleTime = g.invincibleTime
    /\ keys = NoKeys
    /\ out = Void
    /\ frames = 0
    /\ shots = 0
    /\ sinceReset = 0
    /\ volley = Released
    /\ last = NoUpdate

(***************************************************************************)
(* fireBullet, lines 192-209.                                              *)
(***************************************************************************)
\* fireBullet without the test of lines 193-196.
fireAlways ==
    /\ bullets' = Append(bullets, newBullet(ship))
    /\ UNCHANGED <<ship, asteroids, score, gameOver, invincibleTime, sinceReset>>

fireBullet ==
    IF gameOver
    THEN \E tape \in env.tapes :
           LET g == restart(tape, width, height)
           IN  /\ ship' = g.ship
               /\ asteroids' = g.asteroids
               /\ bullets' = g.bullets
               /\ score' = g.score
               /\ gameOver' = g.gameOver
               /\ invincibleTime' = g.invincibleTime
               /\ sinceReset' = 0
    ELSE /\ bullets' = Append(bullets, newBullet(ship))
         /\ UNCHANGED <<ship, asteroids, score, gameOver, invincibleTime, sinceReset>>

(***************************************************************************)
(* handleKey, lines 153-174, for keydown and keyup.  A keydown of a key    *)
(* that is already down is the keyboard's auto-repeat.  The listeners are  *)
(* those the constructor adds (setupControls, line 69), so they exist once *)
(* the page has made the game.                                             *)
(***************************************************************************)
KeyCodes == {"ArrowLeft", "KeyA", "ArrowRight", "KeyD", "ArrowUp", "KeyW", "Space", "Enter"}

KeyName(code) ==
    CASE code \in {"ArrowLeft", "KeyA"} -> "left"
      [] code \in {"ArrowRight", "KeyD"} -> "right"
      [] code \in {"ArrowUp", "KeyW"} -> "up"
      [] code = "Space" -> "fire"
      [] OTHER -> "none"

\* Line 168 without the test of keys['fire'].
FiresOnRepeat(k) == TRUE

\* Line 168: pressed && !this.keys['fire']
FiresOnKeyDown(k) == ~k.fire

KeyDown(code) ==
    /\ app.game
    /\ PlayerFree
    /\ code \in env.codes
    /\ IF KeyName(code) = "fire"
       THEN /\ IF FiresOnKeyDown(keys)
               THEN /\ shots < MaxShots
                    /\ fireBullet
                    /\ shots' = shots + 1
               ELSE UNCHANGED <<ship, asteroids, bullets, score, gameOver,
                                invincibleTime, sinceReset, shots>>
            /\ keys' = [keys EXCEPT !.fire = TRUE]
            /\ volley' =
                 LET spawned == IF gameOver /\ ~gameOver' THEN 0
                                ELSE Len(bullets') - Len(bullets)
                 IN  IF keys.fire
                     THEN [volley EXCEPT !.count = Min(@ + spawned, 2),
                                         !.repeats = Min(@ + 1, 1)]
                     ELSE [count |-> spawned, repeats |-> 0, updates |-> 0,
                           playing |-> ~gameOver]
       ELSE /\ keys' = IF KeyName(code) = "none" THEN keys
                       ELSE [keys EXCEPT ![KeyName(code)] = TRUE]
            /\ UNCHANGED <<ship, asteroids, bullets, score, gameOver, invincibleTime,
                           sinceReset, shots, volley>>
    /\ UNCHANGED <<width, height, stars, renderer, gpu, app, env, frames, out, last>>

KeyUp(code) ==
    /\ app.game
    /\ PlayerFree
    /\ code \in env.codes
    /\ keys' = IF KeyName(code) = "none" THEN keys
               ELSE [keys EXCEPT ![KeyName(code)] = FALSE]
    /\ volley' = IF KeyName(code) = "fire" THEN Released ELSE volley
    /\ UNCHANGED <<width, height, stars, renderer, gpu, app, ship, asteroids, bullets, score, gameOver,
                   invincibleTime, env, frames, shots, sinceReset, out, last>>

(***************************************************************************)
(* The on-screen buttons, lines 180-189: mousedown and touchstart on the   *)
(* fire button call fireBullet(); the thrust button sets and clears        *)
(* keys['up'].                                                             *)
(***************************************************************************)
FireButton ==
    /\ app.game
    /\ frames < Horizon
    /\ shots < (IF Scripted THEN env.autofire ELSE MaxShots)
    /\ fireBullet
    /\ shots' = shots + 1
    /\ UNCHANGED <<width, height, stars, renderer, gpu, app, keys, env, frames, volley, out, last>>

ThrustButton(pressed) ==
    /\ app.game
    /\ PlayerFree
    /\ env.thrustButton
    /\ keys' = [keys EXCEPT !.up = pressed]
    /\ UNCHANGED <<width, height, stars, renderer, gpu, app, ship, asteroids, bullets, score, gameOver,
                   invincibleTime, env, frames, shots, sinceReset, volley, out, last>>

(***************************************************************************)
(* update(), lines 221-320.  last records what the call saw and did: the   *)
(* population, score, state and invincibility counter before it, the hits  *)
(* of the projectile pass, the ship's position and the asteroids after the *)
(* integration (ship, moved), the asteroids the projectile pass left       *)
(* (rocks) and their number (left).                                        *)
(***************************************************************************)
\* update() without the test of line 222.
NeverHalted(over) == FALSE

\* Line 222: if (this.gameOver) return;
Halted(over) == over

DefaultDraw == [edge |-> 0, along |-> 0, angle |-> 0, nverts |-> 8, size |-> 0]

Update ==
    /\ app.loop
    /\ frames < Horizon
    /\ Scripted => shots = env.autofire
    /\ frames' = frames + 1
    /\ shots' = 0
    /\ out' = Void
    /\ volley' = IF keys.fire THEN [volley EXCEPT !.updates = Min(@ + 1, 1)] ELSE volley
    /\ IF Halted(gameOver)
       THEN /\ last' = [NoUpdate EXCEPT !.count = Len(asteroids), !.shots = Len(bullets),
                                        !.score = score, !.over = TRUE,
                                        !.inv = invincibleTime, !.left = Len(asteroids)]
            /\ UNCHANGED <<ship, asteroids, bullets, score, gameOver, invincibleTime,
                           sinceReset>>
       ELSE LET inv1  == IF invincibleTime > 0 THEN invincibleTime - 1 ELSE invincibleTime
                ship1 == StepShip(ship, keys, width, height)
                bs1   == StepBullets(bullets, width, height)
                as1   == StepAsteroids(asteroids, width, height)
                start(tape) == [bullets |-> bs1, asteroids |-> as1, score |-> score,
                                tape |-> tape, log |-> <<>>]
                dry   == BulletPass(Len(bs1),
                                    start([i \in 1..(2 * Len(bs1)) |-> DefaultDraw]),
                                    width, height)
                nsplit == Cardinality({m \in 1..Len(dry.log) : Splits(dry.log[m].size)})
            IN  \E tape \in [1..(2 * nsplit) -> SplitDraws(env)] :
                  LET st == BulletPass(Len(bs1), start(tape), width, height)
                  IN  \E d \in (IF NeedsSpawn(st.asteroids) THEN MaintDraws(env)
                                ELSE {DefaultDraw}) :
                        /\ invincibleTime' = inv1
                        /\ ship' = ship1
                        /\ bullets' = st.bullets
                        /\ score' = st.score
                        /\ gameOver' = (CollisionChecked(inv1) /\ ShipStruck(ship1, st.asteroids))
                        /\ asteroids' = IF ReachesMaintenance(gameOver')
                                         THEN Maintain(st.asteroids, d, width, height)
                                         ELSE st.asteroids
                        /\ sinceReset' = Min(sinceReset + 1, INVINCIBLE_TIME + 1)
                        /\ last' = [count  |-> Len(asteroids),
                                    shots  |-> Len(bullets),
                                    score  |-> score,
                                    over   |-> FALSE,
                                    inv    |-> invincibleTime,
                                    log    |-> st.log,
                                    ship   |-> ship1.position,
                                    moved  |-> as1,
                                    rocks  |-> st.asteroids,
                                    left   |-> Len(st.asteroids)]
    /\ UNCHANGED <<width, height, stars, renderer, gpu, app, keys, env>>

(***************************************************************************)
(* getVertices as the frame loop calls it, once per frame after update().  *)
(***************************************************************************)
\* getVertices putting the thrust flag out once the flame is drawn.
GetVerticesSpending(time10) ==
    /\ app.loop
    /\ frames > env.warmup
    /\ out = Void
    /\ time10 \in env.times
    /\ \E twinkle \in env.twinkles : out' = getVertices(time10, twinkle)
    /\ ship' = [ship EXCEPT !.thrust = FALSE]
    /\ UNCHANGED <<width, height, stars, renderer, gpu, app, asteroids, bullets, score,
                   keys, gameOver, invincibleTime, env, frames, shots, sinceReset,
                   volley, last>>

GetVertices(time10) ==
    /\ app.loop
    /\ frames > env.warmup
    /\ out = Void
    /\ time10 \in env.times
    /\ \E twinkle \in env.twinkles : out' = getVertices(time10, twinkle)
    /\ UNCHANGED <<width, height, stars, renderer, gpu, app, ship, asteroids, bullets, score, keys, gameOver,
                   invincibleTime, env, frames, shots, sinceReset, volley, last>>

Next ==
    \/ \E code \in KeyCodes : KeyDown(code)
    \/ \E code \in KeyCodes : KeyUp(code)
    \/ FireButton
    \/ \E pressed \in BOOLEAN : ThrustButton(pressed)
    \/ Update
    \/ \E time10 \in 0..1 : GetVertices(time10)

(***************************************************************************)
(* WebGPURenderer.initialize, lines 58-144.  p says what the platform      *)
(* offers: p.gpu (navigator.gpu exists), p.adapter (requestAdapter gives   *)
(* one), p.device (requestDevice resolves; it rejects otherwise),          *)
(* p.context (getContext('webgpu') gives one), p.configure (configure and  *)
(* the creation calls after it do not throw).  The result: what the        *)
(* promise does and the fields the call leaves.                            *)
(***************************************************************************)
initialize(p) ==
    IF ~p.gpu \/ ~p.adapter
    THEN [ok |-> FALSE, rejected |-> FALSE, fields |-> NullRenderer]
    ELSE IF ~p.device
    THEN [ok |-> FALSE, rejected |-> TRUE, fields |-> NullRenderer]
    ELSE IF ~p.context
    THEN [ok |-> FALSE, rejected |-> FALSE,
          fields |-> [NullRenderer EXCEPT !.device = "live"]]
    ELSE IF ~p.configure
    THEN [ok |-> FALSE, rejected |-> TRUE,
          fields |-> [NullRenderer EXCEPT !.device = "live", !.context = "live"]]
    ELSE [ok |-> TRUE, rejected |-> FALSE, fields |-> ReadyRenderer]

RendererInitialize(p) ==
    /\ gpu.inits = 0
    /\ gpu.destroys = 0
    /\ renderer' = initialize(p).fields
    /\ gpu' = [gpu EXCEPT !.inits = 1, !.rejected = initialize(p).rejected]
    /\ UNCHANGED <<width, height, ship, asteroids, bullets, score, keys, gameOver,
                   invincibleTime, stars, app, out, env, frames, shots, sinceReset,
                   volley, last>>

(***************************************************************************)
(* WebGPURenderer.render, lines 146-204, for a vertex sequence of the      *)
(* given length: what the call asks of the GPU.                            *)
(***************************************************************************)
\* Line 147.
Ready(r) ==
    /\ r.device # "null" /\ r.context # "null" /\ r.pipeline # "null"
    /\ r.uniformBuffer # "null" /\ r.uniformBindGroup # "null"

\* render() without its last line.
NeverFreed(created) == 0

\* Line 203: vertexBuffer.destroy()
Freed(created) == created

render(r, length) ==
    IF ~Ready(r)
    THEN [NoCall EXCEPT !.length = length]
    ELSE IF length = 0
    THEN [NoCall EXCEPT !.length = length, !.ready = TRUE, !.uniformWrites = 1]
    ELSE [length |-> length, ready |-> TRUE, uniformWrites |-> 1, buffers |-> 1,
          clears |-> 1, draws |-> 1, submits |-> 1, freed |-> Freed(1)]

\* The frame loop is cancelled before destroy() (index.ts, lines 117-118).
Render(length) ==
    /\ gpu.destroys = 0
    /\ gpu.calls < MaxRenders
    /\ length \in env.lengths
    /\ LET call == render(renderer, length)
       IN  gpu' = [gpu EXCEPT !.calls = @ + 1, !.call = call,
                              !.made = @ + call.buffers,
                              !.vertexBuffers = @ + call.buffers - call.freed]
    /\ UNCHANGED <<width, height, ship, asteroids, bullets, score, keys, gameOver,
                   invincibleTime, stars, renderer, app, out, env, frames, shots,
                   sinceReset, volley, last>>

(***************************************************************************)
(* WebGPURenderer.destroy, lines 206-209.  GPUBuffer.destroy() and         *)
(* GPUDevice.destroy() do not throw and do nothing on an object that is    *)
(* already destroyed.                                                      *)
(***************************************************************************)
\* handle.destroy() without the optional chaining.
DestroyThrowsOnNull(handle) == handle = "null"

\* handle?.destroy()
DestroyThrows(handle) == FALSE

DestroyHandle(handle) == IF handle = "null" THEN "null" ELSE "destroyed"

RendererDestroy ==
    /\ gpu.destroys < MaxDestroys
    /\ IF DestroyThrows(renderer.uniformBuffer)
       THEN /\ renderer' = renderer
            /\ gpu' = [gpu EXCEPT !.destroys = @ + 1, !.destroyThrew = TRUE]
       ELSE /\ renderer' = [renderer EXCEPT !.uniformBuffer = DestroyHandle(@),
                                            !.device = DestroyHandle(@)]
            /\ gpu' = [gpu EXCEPT !.destroys = @ + 1,
                                  !.destroyThrew = @ \/ DestroyThrows(renderer.device)]
    /\ UNCHANGED <<width, height, ship, asteroids, bullets, score, keys, gameOver,
                   invincibleTime, stars, app, out, env, frames, shots, sinceReset,
                   volley, last>>

NextRenderer ==
    \/ \E p \in env.platforms : RendererInitialize(p)
    \/ \E length \in env.lengths : Render(length)
    \/ RendererDestroy

(***************************************************************************)
(* VanillaArcade.initialize, index.ts lines 20-76.  canvas: the element    *)
(* 'game-canvas' exists; p: the platform.  The result says what the user   *)
(* is shown (fallback: showWebGPUError ran, lines 78-87), what went to the *)
(* console only (logged: console.error at line 25, or the rejection caught *)
(* at line 130), whether the call reached the frame loop (started, lines   *)
(* 50-75), how many times the renderer's initialize() ran, and the fields  *)
(* of the renderer.                                                        *)
(***************************************************************************)
arcadeInitialize(canvas, p) ==
    IF ~canvas
    THEN [fallback |-> FALSE, logged |-> TRUE, started |-> FALSE, inits |-> 0,
          rejected |-> FALSE, fields |-> NullRenderer]
    ELSE IF ~p.gpu
    THEN [fallback |-> TRUE, logged |-> FALSE, started |-> FALSE, inits |-> 0,
          rejected |-> FALSE, fields |-> NullRenderer]
    ELSE LET r == initialize(p)
         IN  IF r.rejected
             THEN [fallback |-> FALSE, logged |-> TRUE, started |-> FALSE, inits |-> 1,
                   rejected |-> TRUE, fields |-> r.fields]
             ELSE IF ~r.ok
             THEN [fallback |-> TRUE, logged |-> FALSE, started |-> FALSE, inits |-> 1,
                   rejected |-> FALSE, fields |-> r.fields]
             ELSE [fallback |-> FALSE, logged |-> FALSE, started |-> TRUE, inits |-> 1,
                   rejected |-> FALSE, fields |-> r.fields]

\* What an initialize() call that ends with the outcome b leaves: lines 41-47
\* for the renderer and the message, lines 50-75 for the game (made for the
\* size of the canvas), the frame loop and the resize listener.
Settle(b) ==
    /\ renderer' = b.fields
    /\ gpu' = [gpu EXCEPT !.inits = b.inits, !.rejected = b.rejected]
    /\ app' = [app EXCEPT !.attempts = 1, !.pending = FALSE, !.fallback = b.fallback,
                          !.logged = b.logged, !.game = b.started,
                          !.loop = b.started, !.listening = b.started]
    /\ IF b.started
       THEN \E tape \in env.tapes :
              LET g == restart(tape, width, height)
              IN  /\ ship' = g.ship
                  /\ asteroids' = g.asteroids
                  /\ bullets' = g.bullets
                  /\ score' = g.score
                  /\ gameOver' = g.gameOver
                  /\ invincibleTime' = g.invincibleTime
                  /\ stars' = initStars(env.brightness)
                  /\ keys' = NoKeys
       ELSE UNCHANGED <<ship, asteroids, bullets, score, gameOver, invincibleTime,
                        stars, keys>>
    /\ UNCHANGED <<width, height, out, env, frames, shots, sinceReset, volley, last>>

\* DOMContentLoaded, lines 128-131: initialize() runs once, here with no
\* other event of the page between its start and its end.
ArcadeInitialize(canvas, p) ==
    /\ app.attempts = 0
    /\ ~app.pending
    /\ Settle(arcadeInitialize(canvas, p))

\* initialize() up to its suspension: the canvas is there, navigator.gpu
\* exists, the renderer object is made (line 41) and the call awaits
\* requestAdapter() and requestDevice() (webgpu-renderer.ts, lines 64 and 70),
\* before which no field of the renderer is set.
ArcadeSuspend ==
    /\ app.attempts = 0
    /\ ~app.pending
    /\ app' = [app EXCEPT !.pending = TRUE]
    /\ UNCHANGED <<width, height, ship, asteroids, bullets, score, keys, gameOver,
                   invincibleTime, stars, renderer, gpu, out, env, frames, shots,
                   sinceReset, volley, last>>

\* The suspended initialize() resumes, on a platform p with navigator.gpu, and
\* runs to its end.  Nothing in lines 42-75 looks at whether destroy() was
\* called in the meantime.
ArcadeResume(p) ==
    /\ app.pending
    /\ p.gpu
    /\ Settle(arcadeInitialize(TRUE, p))

(***************************************************************************)
(* VanillaArcade.destroy, index.ts lines 116-124: cancelAnimationFrame of  *)
(* the frame requested last (none before the loop has started), then the   *)
(* renderer's destroy() if the renderer object exists.  The listeners      *)
(* stay.  The call comes once initialize() has been called.                *)
(***************************************************************************)
ArcadeDestroy ==
    /\ app.pending \/ app.attempts = 1
    /\ frames = 0 \/ PlayerFree
    /\ gpu.destroys < MaxDestroys
    /\ app' = [app EXCEPT !.loop = FALSE, !.destroyed = TRUE]
    /\ renderer' = [renderer EXCEPT !.uniformBuffer = DestroyHandle(@),
                                    !.device = DestroyHandle(@)]
    /\ gpu' = [gpu EXCEPT !.destroys = @ + 1]
    /\ UNCHANGED <<width, height, ship, asteroids, bullets, score, keys, gameOver,
                   invincibleTime, stars, out, env, frames, shots, sinceReset,
                   volley, last>>

(***************************************************************************)
(* handleResize, index.ts lines 89-100, with the canvas w x h after the    *)
(* resize.  The listener exists once initialize() has reached line 75, so  *)
(* the canvas is there.  app.before keeps what the game was before.        *)
(***************************************************************************)
\* handleResize without lines 97-99.
NeverReinitialized(made) == FALSE

\* Line 97: if (this.game)
Reinitialized(made) == made

Resize(w, h) ==
    /\ app.listening
    /\ PlayerFree
    /\ app.resizes < MaxResizes
    /\ <<w, h>> \in env.sizes
    /\ width' = w
    /\ height' = h
    /\ app' = [app EXCEPT !.resizes = @ + 1,
                          !.before = [over |-> gameOver, score |-> score,
                                      shots |-> Len(bullets)]]
    /\ IF Reinitialized(app.game)
       THEN \E tape \in env.tapes :
              LET g == restart(tape, w, h)
              IN  /\ ship' = g.ship
                  /\ asteroids' = g.asteroids
                  /\ bullets' = g.bullets
                  /\ score' = g.score
                  /\ gameOver' = g.gameOver
                  /\ invincibleTime' = g.invincibleTime
                  /\ stars' = initStars(env.brightness)
                  /\ keys' = NoKeys
                  /\ sinceReset' = 0
                  /\ volley' = Released
       ELSE UNCHANGED <<ship, asteroids, bullets, score, gameOver, invincibleTime,
                        stars, keys, sinceReset, volley>>
    /\ UNCHANGED <<renderer, gpu, out, env, frames, shots, last>>

\* The listeners of the game and the frame loop exist once initialize() has
\* made the game and started the loop.
NextArcade ==
    \/ \E canvas \in BOOLEAN, p \in env.platforms : ArcadeInitialize(canvas, p)
    \/ ArcadeSuspend
    \/ \E p \in env.platforms : ArcadeResume(p)
    \/ ArcadeDestroy
    \/ \E size \in env.sizes : Resize(size[1], size[2])
    \/ Next

(***************************************************************************)
(* Runs.                                                                   *)
(***************************************************************************)
Draw(edge, along, angle, size) ==
    [edge |-> edge, along |-> along, angle |-> angle, nverts |-> 8, size |-> size]

\* A 100 x 100 surface; the player is free from the first frame.
FreePlay ==
    [width |-> 100, height |-> 100,
     tapes |-> {<<Draw(0, 50, 2, 0), Draw(1, 50, 1, 0), Draw(2, 50, 0, 0),
                  Draw(3, 50, 3, 0), Draw(0, 25, 0, 0)>>},
     edges |-> {0, 1}, along |-> {50}, angles |-> {0}, nverts |-> {9},
     initSize |-> {0}, maintSize |-> {0},
     warmup |-> 0, autofire |-> 0,
     codes |-> {"Space", "ArrowLeft"},
     thrustButton |-> TRUE,
     times |-> {0},
     brightness |-> <<30, 90>>, twinkles |-> {100},
     booted |-> TRUE]

Init == InitWith(FreePlay)
Spec == Init /\ [][Next]_vars

\* A 400 x 430 surface on which the player waits for 119 frames, so that the
\* free frames are the 120th and 121st update() calls after the construction.
\* The first asteroid of one tape comes down from the top edge and is 71
\* pixels above the ship after 120 frames and 69.8 after 121; the first
\* asteroid of the other comes from the left edge and is within 70 pixels of
\* the ship from the 109th frame on.  The other asteroids travel along the top
\* edge, out of reach.
Expiry ==
    [width |-> 400, height |-> 430,
     tapes |-> {<<Draw(2, 50, 1, 0), Draw(2, 0, 0, 0), Draw(2, 0, 0, 0),
                  Draw(2, 0, 0, 0), Draw(2, 0, 0, 0)>>,
                <<Draw(0, 50, 0, 0), Draw(2, 0, 0, 0), Draw(2, 0, 0, 0),
                  Draw(2, 0, 0, 0), Draw(2, 0, 0, 0)>>},
     edges |-> {2}, along |-> {0}, angles |-> {0}, nverts |-> {8},
     initSize |-> {0}, maintSize |-> {0},
     warmup |-> 119, autofire |-> 0,
     codes |-> {"Space"},
     thrustButton |-> TRUE,
     times |-> {0},
     brightness |-> <<30, 90>>, twinkles |-> {50},
     booted |-> TRUE]

InitExpiry == InitWith(Expiry)
SpecExpiry == InitExpiry /\ [][Next]_vars

\* A 200 x 150 surface on which the five asteroids come down together from
\* the middle of the top edge while the player presses the fire button three
\* times per frame for 11 frames: the projectiles break the asteroids up until
\* the population is at its cap, then destroy the fragments until one asteroid
\* is left.
Barrage ==
    [width |-> 200, height |-> 150,
     tapes |-> {<<Draw(2, 50, 1, 0), Draw(2, 50, 1, 0), Draw(2, 50, 1, 0),
                  Draw(2, 50, 1, 0), Draw(2, 50, 1, 0)>>},
     edges |-> {0, 2}, along |-> {50}, angles |-> {1}, nverts |-> {8},
     initSize |-> {0}, maintSize |-> {0},
     warmup |-> 11, autofire |-> 3,
     codes |-> {"Space"},
     thrustButton |-> TRUE,
     times |-> {0},
     brightness |-> <<30, 90>>, twinkles |-> {50},
     booted |-> TRUE]

InitBarrage == InitWith(Barrage)
SpecBarrage == InitBarrage /\ [][Next]_vars

\* A 400 x 300 surface on which the five asteroids stay about the left and
\* right edges while the player presses the fire button once per frame for 58
\* frames: the projectiles fly up the middle of the surface and hit nothing,
\* and the free frames are the 59th and 60th update() calls of the first
\* projectile.
Longshot ==
    [width |-> 400, height |-> 300,
     tapes |-> {<<Draw(0, 50, 2, 0), Draw(0, 50, 2, 0), Draw(0, 50, 2, 0),
                  Draw(0, 50, 2, 0), Draw(0, 50, 2, 0)>>},
     edges |-> {0}, along |-> {50}, angles |-> {2}, nverts |-> {8},
     initSize |-> {0}, maintSize |-> {0},
     warmup |-> 58, autofire |-> 1,
     codes |-> {"Space"},
     thrustButton |-> TRUE,
     times |-> {0},
     brightness |-> <<30, 90>>, twinkles |-> {50},
     booted |-> TRUE]

InitLongshot == InitWith(Longshot)
SpecLongshot == InitLongshot /\ [][Next]_vars

\* A 120 x 144 surface.  The first asteroid goes down the left edge, out of
\* the projectiles' way, and is back beside the ship, within 70 pixels of it,
\* at the 120th update() call; the others, and those the maintenance adds,
\* come down the middle from the top edge, where the player's projectiles,
\* one per frame for 119 frames, break them up and destroy them.
LastStand ==
    [width |-> 120, height |-> 144,
     tapes |-> {<<Draw(0, 50, 1, 0), Draw(2, 50, 1, 0), Draw(2, 50, 1, 0),
                  Draw(2, 50, 1, 0), Draw(2, 50, 1, 0)>>},
     edges |-> {2}, along |-> {50}, angles |-> {1}, nverts |-> {8},
     initSize |-> {0}, maintSize |-> {0},
     warmup |-> 119, autofire |-> 1,
     codes |-> {"Space"},
     thrustButton |-> TRUE,
     times |-> {0},
     brightness |-> <<30, 90>>, twinkles |-> {50},
     booted |-> TRUE]

InitLastStand == InitWith(LastStand)
SpecLastStand == InitLastStand /\ [][Next]_vars

\* The surface and the barrage of Barrage, for 16 frames, with asteroids of
\* the sizes the draws 0 and 0.99 give: 60 and 79.8 at the start, 50 and 79.7
\* from the maintenance, which adds its asteroids in the middle of the top
\* edge, in the projectiles' way.
Sizes ==
    [width |-> 200, height |-> 150,
     tapes |-> {<<Draw(2, 50, 1, 0), Draw(2, 50, 1, 0), Draw(2, 50, 1, 0),
                  Draw(2, 50, 1, 99), Draw(2, 50, 1, 99)>>},
     edges |-> {2}, along |-> {50}, angles |-> {1}, nverts |-> {8},
     initSize |-> {0}, maintSize |-> {0, 99},
     warmup |-> 16, autofire |-> 3,
     codes |-> {"Space"},
     thrustButton |-> TRUE,
     times |-> {0},
     brightness |-> <<30, 90>>, twinkles |-> {50},
     booted |-> TRUE]

InitSizes == InitWith(Sizes)
SpecSizes == InitSizes /\ [][Next]_vars

\* What a platform may offer.
Platform(gpuOk, adapter, device, context, configure) ==
    [gpu |-> gpuOk, adapter |-> adapter, device |-> device, context |-> context,
     configure |-> configure]

Platforms ==
    {Platform(FALSE, FALSE, FALSE, FALSE, FALSE),
     Platform(TRUE, FALSE, FALSE, FALSE, FALSE),
     Platform(TRUE, TRUE, FALSE, FALSE, FALSE),
     Platform(TRUE, TRUE, TRUE, FALSE, FALSE),
     Platform(TRUE, TRUE, TRUE, TRUE, FALSE),
     Platform(TRUE, TRUE, TRUE, TRUE, TRUE)}

\* A renderer on its own, from its construction: any platform, vertex
\* sequences of length 0, 2 and 4.
Bench ==
    [booted |-> FALSE, platforms |-> Platforms, lengths |-> {0, 2, 4}] @@ FreePlay

InitRenderer == InitWith(Bench)
SpecRenderer == InitRenderer /\ [][NextRenderer]_vars

\* The page from its load: any platform, with or without the canvas; once the
\* game runs, the run of Expiry, with resizes of the canvas to 200 x 150.
Arcade ==
    [booted |-> FALSE, platforms |-> Platforms, sizes |-> {<<200, 150>>}] @@ Expiry

InitArcade == InitWith(Arcade)
SpecArcade == InitArcade /\ [][NextArcade]_vars

(***************************************************************************)
(* Properties.                                                             *)
(***************************************************************************)
\* The game fields are as the last update() call left them: no fire event
\* has come since.
AfterUpdate == frames > 0 /\ shots = 0

\* ... and that call ran in the Playing state.
AfterPlayingUpdate == AfterUpdate /\ ~last.over

\* The distance from p to the asteroid a is below a.size + SHIP_SIZE / 2.
Within(p, a) ==
    LET reach == a.size + (SHIP_SIZE * Unit) \div 2
    IN  (p.x - a.position.x) * (p.x - a.position.x)
          + (p.y - a.position.y) * (p.y - a.position.y) < reach * reach

Overlaps(p, list) == \E j \in 1..Len(list) : Within(p, list[j])

InField(p) ==
    /\ 0 <= p.x /\ p.x < width * Unit
    /\ 0 <= p.y /\ p.y < height * Unit

Hits == {last.log[m] : m \in 1..Len(last.log)}

\* The asteroids a hit added are halves of the removed one, at its place.
Halves(e) ==
    \A m \in 1..Len(e.added) :
        /\ 2 * e.added[m].size = e.size
        /\ e.added[m].position = e.position

\* C1: for the first 120 update() calls after a reset the game cannot enter
\* GameOver, whatever overlaps the ship; after them the collision test is
\* active.
C1_InvincibleFor120Updates ==
    /\ sinceReset <= INVINCIBLE_TIME => ~gameOver
    /\ (AfterPlayingUpdate /\ sinceReset > INVINCIBLE_TIME
          /\ Overlaps(last.ship, last.rocks)) => gameOver

\* C2: after an update() call in Playing the ship, every projectile and
\* every asteroid has 0 <= x < width and 0 <= y < height.
C2_PositionsInField ==
    AfterPlayingUpdate =>
        /\ InField(ship.position)
        /\ \A i \in 1..Len(bullets) : InField(bullets[i].position)
        /\ \A j \in 1..Len(asteroids) : InField(asteroids[j].position)

\* C3 as stated: an update() call in Playing that starts with fewer than 3
\* asteroids ends with at least 3.
C3_AtLeastThreeAfterwards ==
    (AfterPlayingUpdate /\ last.count < MIN_ASTEROIDS) => Len(asteroids) >= MIN_ASTEROIDS

\* C3, amended: an update() call in Playing whose passes leave fewer than 3
\* asteroids adds exactly one asteroid, and adds none otherwise; so a call
\* that starts with fewer than 3 and destroys none ends with one more than it
\* started with.
C3_OneSpawnPerUpdate ==
    AfterPlayingUpdate =>
        /\ Len(asteroids) = last.left + (IF last.left < MIN_ASTEROIDS THEN 1 ELSE 0)
        /\ (last.count < MIN_ASTEROIDS /\ last.log = <<>>)
             => Len(asteroids) = last.count + 1

\* An update() call started with one asteroid, no projectile hit it, and the
\* call ended with two.
C3_Witness ==
    /\ AfterPlayingUpdate
    /\ last.count = 1
    /\ last.log = <<>>
    /\ Len(asteroids) = 2

\* C4: the number of asteroids never exceeds MAX_ASTEROIDS = 15.
C4_PopulationCapped == Len(asteroids) <= MAX_ASTEROIDS

\* The population is 15 after an update() call in which a projectile split
\* an asteroid while the population was 15.
C4_Witness ==
    /\ AfterPlayingUpdate
    /\ Len(asteroids) = MAX_ASTEROIDS
    /\ \E e \in Hits : e.count = MAX_ASTEROIDS /\ e.size > SPLIT_SIZE * Unit

\* C5 as stated: a destroyed asteroid of size above 25 is replaced by exactly
\* two asteroids of half its size at its position; one of size 25 or less by
\* none.
C5_TwoChildren ==
    AfterPlayingUpdate =>
        \A e \in Hits :
            /\ Halves(e)
            /\ Len(e.added) = (IF e.size > SPLIT_SIZE * Unit THEN 2 ELSE 0)

\* C5, amended: a destroyed asteroid of size above 25 is replaced by two
\* asteroids of half its size at its position, except that it is replaced by
\* one only when the population was 15 at the moment of the hit; one of size
\* 25 or less is replaced by none.
C5_TwoChildrenUnlessFull ==
    AfterPlayingUpdate =>
        \A e \in Hits :
            /\ Halves(e)
            /\ Len(e.added) = (IF e.size <= SPLIT_SIZE * Unit THEN 0
                               ELSE IF e.count = MAX_ASTEROIDS THEN 1 ELSE 2)

\* In one update() call an asteroid of size above 25 was hit at population 15
\* and got one child, another was hit below 15 and got two.
C5_Witness ==
    /\ AfterPlayingUpdate
    /\ \E e \in Hits :
          e.size > SPLIT_SIZE * Unit /\ e.count = MAX_ASTEROIDS /\ Len(e.added) = 1
    /\ \E e \in Hits :
          e.size > SPLIT_SIZE * Unit /\ e.count < MAX_ASTEROIDS /\ Len(e.added) = 2

\* C6: a hit on an asteroid of size above 25 at population 14 places both
\* children and brings the population to 15; a spawn that would make a 16th
\* asteroid is dropped.
C6_SplitAtFourteen ==
    AfterPlayingUpdate =>
        \A e \in Hits :
            (e.size > SPLIT_SIZE * Unit /\ e.count >= MAX_ASTEROIDS - 1)
                => /\ e.count - 1 + Len(e.added) = MAX_ASTEROIDS
                   /\ Halves(e)

\* An asteroid of size above 25 was hit at population 14 and both children
\* were placed.
C6_Witness ==
    /\ AfterPlayingUpdate
    /\ \E e \in Hits :
          e.size > SPLIT_SIZE * Unit /\ e.count = MAX_ASTEROIDS - 1 /\ Len(e.added) = 2

\* C7: while the Space key is held, the press has created exactly one
\* projectile if the game was in Playing when the key went down (none if it
\* restarted the game), however many auto-repeat keydown events and update()
\* calls have come since.
C7_OneProjectilePerPress ==
    keys.fire => volley.count = (IF volley.playing THEN 1 ELSE 0)

\* The Space key went down in Playing, has auto-repeated and has been held
\* across an update() call, and has created one projectile.
C7_Witness ==
    /\ keys.fire
    /\ volley.playing
    /\ volley.repeats > 0
    /\ volley.updates > 0
    /\ volley.count = 1

\* C8: an update() call never lowers the score.
C8_ScoreNeverDecreases == AfterUpdate => score >= last.score

\* An update() call raised the score.
C8_Witness == AfterPlayingUpdate /\ last.log # <<>> /\ score > last.score

\* C9 as stated: with the invincibility counter expired, an update() call in
\* Playing after whose integration step an asteroid is closer to the ship than
\* its size + SHIP_SIZE / 2 sets GameOver.
C9_NearMeansGameOver ==
    (AfterPlayingUpdate /\ last.inv <= 0 /\ Overlaps(last.ship, last.moved)) => gameOver

\* C9, amended: with the invincibility counter expired, an update() call in
\* Playing sets GameOver when an asteroid that is in the population after the
\* projectile pass is closer to the ship than its size + SHIP_SIZE / 2.
C9_StruckMeansGameOver ==
    (AfterPlayingUpdate /\ last.inv <= 0 /\ Overlaps(last.ship, last.rocks)) => gameOver

\* The counter had expired, an asteroid left by the projectile pass was
\* within reach of the ship, and the call set GameOver.
C9_Witness ==
    /\ AfterPlayingUpdate
    /\ last.inv <= 0
    /\ Overlaps(last.ship, last.rocks)
    /\ gameOver

\* C10: Playing -> GameOver happens only in an update() call that leaves the
\* invincibility counter at 0 or less and finds an asteroid within collision
\* distance of the ship; GameOver -> Playing happens only by a fire event.
C10_Transitions ==
    [][ /\ (~gameOver /\ gameOver')
            => /\ frames' = frames + 1
               /\ invincibleTime' <= 0
               /\ Overlaps(last'.ship, last'.rocks)
        /\ (gameOver /\ ~gameOver')
            => /\ shots' = shots + 1
               /\ frames' = frames ]_vars

\* The game went to GameOver and a fire event has restarted it.
C10_Witness == ~gameOver /\ sinceReset = 0 /\ frames > 0

\* C11: an update() call in GameOver leaves the ship, the asteroids, the
\* projectiles, the score and the invincibility counter as they were,
\* whatever keys are held.
C11_UpdateHaltedInGameOver ==
    [][ (gameOver /\ frames' = frames + 1)
            => UNCHANGED <<ship, asteroids, bullets, score, invincibleTime>> ]_vars

\* update() has run in GameOver with thrust held and projectiles in flight.
C11_Witness ==
    /\ AfterUpdate
    /\ last.over
    /\ gameOver
    /\ keys.up
    /\ bullets # <<>>

OnEdge(p) ==
    \/ p.x = 0 \/ p.x = width * Unit
    \/ p.y = 0 \/ p.y = height * Unit

\* A new game on the present field: Playing, no score, no projectile, the
\* full invincibility counter, the ship at rest in the centre and five
\* asteroids of size 60 to 80 on the edges.
FreshGame ==
    /\ ~gameOver
    /\ score = 0
    /\ bullets = <<>>
    /\ invincibleTime = 120
    /\ ship.position = Vec((width * Unit) \div 2, (height * Unit) \div 2)
    /\ ship.velocity = Vec(0, 0)
    /\ ~ship.thrust
    /\ Len(asteroids) = 5
    /\ \A j \in 1..Len(asteroids) :
          /\ OnEdge(asteroids[j].position)
          /\ 60 * Unit <= asteroids[j].size /\ asteroids[j].size < 80 * Unit

\* C12: a fire event in GameOver resets the game and creates no projectile.
C12_FireInGameOverResets ==
    [][ (gameOver /\ shots' = shots + 1) => FreshGame' ]_vars

\* A fire event has restarted a game that ended with projectiles in flight
\* and an asteroid away from the edges.
C12_Witness ==
    /\ FreshGame
    /\ sinceReset = 0
    /\ shots > 0
    /\ last.shots > 0
    /\ last.log = <<>>
    /\ \E j \in 1..Len(last.rocks) : ~OnEdge(last.rocks[j].position)

\* C13: the vertex sequence getVertices returns has even length.
C13_EvenLength == out # Void => out.len % 2 = 0

\* getVertices has drawn the GAME OVER screen with projectiles in flight.
C13_Witness == out # Void /\ gameOver /\ bullets # <<>> /\ keys.up

\* C14: every colour channel of every vertex getVertices returns is within
\* [0, 1].
C14_ChannelsInRange == out # Void => (0 <= out.lo /\ out.hi <= Full)

\* C15: a getVertices call changes nothing of the game: the ship, the
\* asteroids, the projectiles, the stars, the score, the invincibility
\* counter, the Playing / GameOver state, the held keys and the field size.
C15_GetVerticesReadsOnly ==
    [][ (out = Void /\ out' # Void)
            => UNCHANGED <<ship, asteroids, bullets, stars, score, invincibleTime,
                           gameOver, keys, width, height>> ]_vars

\* getVertices has drawn a blinking ship with its flame and a projectile.
C15_Witness ==
    /\ out # Void
    /\ out.blink
    /\ ~gameOver
    /\ ship.thrust
    /\ bullets # <<>>

\* C16: a render() call does nothing (no uniform-buffer write, no buffer
\* creation, no clear, no draw, no submission) when a GPU resource is missing
\* or the vertex sequence is empty.
C16_RenderNoOp ==
    (gpu.calls > 0 /\ (~gpu.call.ready \/ gpu.call.length = 0))
        => /\ gpu.call.uniformWrites = 0
           /\ gpu.call.buffers = 0
           /\ gpu.call.clears = 0
           /\ gpu.call.draws = 0
           /\ gpu.call.submits = 0

\* C17: a destroy() call never throws and leaves neither the device nor the
\* uniform buffer alive (everything else the renderer allocated belongs to
\* the device); a destroy() call after the first changes nothing.
C17_DestroyIdempotent ==
    [][ gpu'.destroys = gpu.destroys + 1
            => /\ ~gpu'.destroyThrew
               /\ renderer'.device # "live"
               /\ renderer'.uniformBuffer # "live"
               /\ gpu.destroys > 0 => renderer' = renderer ]_vars

\* destroy() has been called twice after an initialize() that got a device
\* but no context.
C17_Witness ==
    /\ gpu.destroys = 2
    /\ gpu.inits = 1
    /\ renderer.device = "destroyed"
    /\ renderer.context = "null"

\* C18: an initialize() of the page that fails, for want of the canvas or of
\* the GPU adapter, device or context, shows the 'unsupported' message, does
\* not start the frame loop and does not try again.
C18_FailuresShowFallback ==
    (app.attempts = 1 /\ ~app.game)
        => /\ app.fallback
           /\ ~app.loop
           /\ gpu.inits <= 1

\* C19: a resize leaves a new game on the new field, whatever the game was:
\* Playing, no score, no projectile, the ship at rest in the centre, five
\* asteroids on the edges and the full invincibility counter; the update()
\* calls that follow work on that game.
C19_ResizeResets ==
    [][ /\ app'.resizes = app.resizes + 1 => (FreshGame' /\ keys' = NoKeys)
        /\ (app.resizes > 0 /\ frames' = frames + 1)
            => /\ last'.over = gameOver
               /\ last'.inv = invincibleTime
               /\ last'.score = score
               /\ last'.count = Len(asteroids)
               /\ last'.shots = Len(bullets) ]_vars

\* The canvas was resized in GameOver with a projectile in flight, and
\* update() has run since on the new game.
C19_Witness ==
    /\ app.resizes = 1
    /\ app.before.over
    /\ app.before.shots > 0
    /\ AfterUpdate
    /\ ~last.over
    /\ last.inv = INVINCIBLE_TIME
    /\ last.ship = Vec((width * Unit) \div 2, (height * Unit) \div 2)
    /\ width = 200

\* The indices of the asteroids of e.tested the projectile of the hit e is
\* inside of.
Struck(e) ==
    {j \in 1..Len(e.tested) :
        (e.bullet.x - e.tested[j].position.x) * (e.bullet.x - e.tested[j].position.x)
          + (e.bullet.y - e.tested[j].position.y) * (e.bullet.y - e.tested[j].position.y)
          < e.tested[j].size * e.tested[j].size}

\* C20: the asteroid a projectile removes is, of the asteroids the projectile
\* is inside of, the one with the lowest index in the list.
C20_LowestIndexRemoved ==
    AfterPlayingUpdate => \A e \in Hits : \A j \in Struck(e) : e.index <= j

\* The points of the hits of a log: floor(100 / size * 10) for each.
RECURSIVE Points(_)
Points(log) ==
    IF log = <<>> THEN 0
    ELSE (100 * Unit * 10) \div Head(log).size + Points(Tail(log))

RECURSIVE Added(_)
Added(log) == IF log = <<>> THEN 0 ELSE Len(Head(log).added) + Added(Tail(log))

\* The projectiles an update() call keeps after the lifetime step.
Flying == Cardinality({i \in 1..Len(bullets) : bullets[i].life > 1})

\* C21: in an update() call in Playing the hits are no more than the
\* projectiles in flight; each takes one projectile and one asteroid away
\* and adds floor(100 / size * 10) to the score; nothing else changes the
\* score, and the asteroids destroyed are as many as the projectiles that a
\* collision removed.
C21_OneHitOneProjectileOneObstacle ==
    [][ (~gameOver /\ frames' = frames + 1)
            => /\ Len(last'.log) <= Flying
               /\ Len(bullets') = Flying - Len(last'.log)
               /\ last'.left = Len(asteroids) - Len(last'.log) + Added(last'.log)
               /\ score' = score + Points(last'.log)
               /\ \A m \in 1..Len(last'.log) :
                     /\ Len(last'.log[m].tested) = last'.log[m].count
                     /\ last'.log[m].tested[last'.log[m].index].size = last'.log[m].size
                     /\ last'.log[m].index \in Struck(last'.log[m]) ]_vars

\* update() has seen two hits or more, one that added both halves of its
\* asteroid and one that added fewer.
C21_Witness ==
    /\ AfterPlayingUpdate
    /\ Len(last.log) >= 2
    /\ \E e \in Hits : Len(e.added) = 2
    /\ \E e \in Hits : Len(e.added) < 2
    /\ score > last.score

\* The projectiles that outlive the lifetime step of an update() call.
Survivors == SelectSeq(bullets, LAMBDA b : b.life > 1)

\* C22: a projectile appears only by a fire event in Playing, with lifetime
\* 60; an update() call in Playing takes 1 from the lifetime of every
\* projectile and drops those it brings to 0, so that a projectile that hits
\* nothing is dropped by its 60th update() call and not before; between the
\* calls every lifetime is in 1..60.
C22_ProjectileLifetime ==
    [][ /\ \A i \in 1..Len(bullets') : bullets'[i].life \in 1..60
        /\ Len(bullets') > Len(bullets)
            => /\ ~gameOver
               /\ shots' = shots + 1
               /\ frames' = frames
               /\ Len(bullets') = Len(bullets) + 1
               /\ SubSeq(bullets', 1, Len(bullets)) = bullets
               /\ bullets'[Len(bullets')].life = 60
        /\ (~gameOver /\ frames' = frames + 1)
            => /\ \A i \in 1..Len(bullets') :
                    \E k \in 1..Len(Survivors) : bullets'[i].life = Survivors[k].life - 1
               /\ last'.log = <<>>
                    => /\ Len(bullets') = Len(Survivors)
                       /\ \A i \in 1..Len(bullets') :
                             bullets'[i].life = Survivors[i].life - 1 ]_vars

\* The 60th update() call after a fire event has dropped the projectile of
\* that event, which the 59th had left with lifetime 1, and has kept the
\* projectiles fired after it.
C22_Witness ==
    /\ AfterPlayingUpdate
    /\ frames = 60
    /\ last.log = <<>>
    /\ last.shots >= 59
    /\ Len(bullets) = last.shots - 1
    /\ bullets[1].life = 1

\* C23: an update() call in Playing ends with the maintenance step, whatever
\* the collision passes did and whether or not the call ends the game: when
\* the projectile pass has left fewer than 3 asteroids, one asteroid of size
\* 50 to 80 on an edge is added after them, and none otherwise.
C23_MaintenanceEveryUpdate ==
    AfterPlayingUpdate =>
        IF Len(last.rocks) < 3
        THEN /\ Len(asteroids) = Len(last.rocks) + 1
             /\ SubSeq(asteroids, 1, Len(last.rocks)) = last.rocks
             /\ OnEdge(asteroids[Len(asteroids)].position)
             /\ 50 * Unit <= asteroids[Len(asteroids)].size
             /\ asteroids[Len(asteroids)].size < 80 * Unit
        ELSE asteroids = last.rocks

\* An update() call in which a projectile destroyed an asteroid and left
\* fewer than 3 has ended the game and added one asteroid.
C23_Witness ==
    /\ AfterPlayingUpdate
    /\ gameOver
    /\ last.log # <<>>
    /\ Len(last.rocks) < 3
    /\ Len(asteroids) = Len(last.rocks) + 1

\* C24: after an initialize() of the page that failed, nothing the renderer
\* acquired is still alive and the frame loop does not run.
C24_FailureReleasesResources ==
    (app.attempts = 1 /\ ~app.game)
        => /\ renderer.device # "live"
           /\ renderer.uniformBuffer # "live"
           /\ ~app.loop

\* C25: every asteroid's size is above 12.5 and below 80, so above 0; every
\* hit is worth 12 points or more, and an update() call raises the score by
\* 12 or more for each of its hits.
C25_SizesBounded ==
    /\ \A j \in 1..Len(asteroids) :
          /\ 4 * asteroids[j].size > 50 * Unit
          /\ asteroids[j].size < 80 * Unit
    /\ AfterPlayingUpdate
          => /\ \A e \in Hits : (100 * Unit * 10) \div e.size >= 12
             /\ score >= last.score + 12 * Len(last.log)

\* An update() call in which one projectile destroyed an asteroid of size 25,
\* the half of one the maintenance added, while a fragment of size below 20
\* was in the list, and another hit an asteroid of size above 79.
C25_Witness ==
    /\ AfterPlayingUpdate
    /\ \E e \in Hits :
          /\ e.size = 25 * Unit
          /\ e.added = <<>>
          /\ \E j \in 1..Len(e.tested) : e.tested[j].size < 20 * Unit
    /\ \E e \in Hits : e.size > 79 * Unit
    /\ score > last.score

\* C26: once destroy() of the page has been called, no update() call, no
\* getVertices call and no render() call takes place.
C26_NoFrameAfterDestroy ==
    [][ app.destroyed => (frames' = frames /\ out' = out /\ gpu'.calls = gpu.calls) ]_vars

\* C27: a render() call destroys the vertex buffer it creates, so that no
\* vertex buffer is alive between the calls; the uniform buffer initialize()
\* creates is alive until destroy().
C27_NoVertexBufferLeft ==
    /\ gpu.vertexBuffers = 0
    /\ gpu.calls > 0 => gpu.call.freed = gpu.call.buffers
    /\ renderer.pipeline = "live"
          => renderer.uniformBuffer = (IF gpu.destroys = 0 THEN "live" ELSE "destroyed")

\* Three render() calls have each created a vertex buffer.
C27_Witness ==
    /\ gpu.calls = 3
    /\ gpu.made = 3
    /\ gpu.call.buffers = 1
    /\ gpu.vertexBuffers = 0
    /\ renderer.uniformBuffer = "live"

====
